---------------------------- MODULE Spec2Model ----------------------------
(***************************************************************************)
(* The photo hat-overlay editor (React component PhotoEditor) as a state   *)
(* machine.  The repository holds five copies of the component:            *)
(*                                                                         *)
(*   "elizaTape"    src/src/components/PhotoEditor/PhotoEditor.tsx         *)
(*   "ai16z"        src/unnamed/part_001                                   *)
(*   "sweety"       src/unnamed/part_002, lines 1-381                      *)
(*   "sweetyWindow" src/unnamed/part_002, lines 384-826                    *)
(*   "elizaColor"   src/unnamed/part_002, lines 829-1296                   *)
(*                                                                         *)
(* The state is the component's useState cells and useRef cells, the       *)
(* browser's pending timers, file reads and image decodes, and the         *)
(* running invocations of the async handleSave.  One action is one event   *)
(* handler run to completion, followed by React's re-render (which is      *)
(* where the memoised handleSave is rebuilt, see SaveClosureAfter).        *)
(*                                                                         *)
(* Numbers: clientX/clientY and rotation are integers.  transform.scale is *)
(* a JavaScript number; it is modelled in fixed point, in units of         *)
(* 1/ScaleUnit, each product rounded to the nearest unit.                  *)
(***************************************************************************)
EXTENDS Integers, Sequences, FiniteSets, TLC

VARIABLES
    variant,            \* which copy of the component is mounted
    transform,          \* useState<Transform>
    isDragging,         \* useRef(false)
    dragStart,          \* useRef<Position>
    isFlipped,          \* useState<boolean>
    hasTape,            \* useState<boolean>
    hatColor,           \* useState<'orange' | 'blue'>
    currentHatImage,    \* useState<string>: the asset the preview shows
    savedHat,           \* currentHatImage as captured by the memoised handleSave
    baseImage,          \* useState<string>: '' or the data URL of a file
    originalImageSize,  \* useState<{width, height}>
    status,             \* useState<{message, type} | null>
    statusTimeoutRef,   \* useRef<Timeout>: id of the timer scheduled last
    timers,             \* ids of the browser's pending setTimeout timers
    due,                \* pending timer id -> milliseconds until it is due
    uploads,            \* FileReader reads and Image decodes started by uploads
    exports,            \* invocations of handleSave that are at an await
    gesture,            \* history: the drag in progress or last finished
    trail,              \* history: the last button pressed and the state before it
    selected,           \* history: the image file selected last
    mounted             \* whether the component is mounted

editVars   == <<transform, isDragging, dragStart, isFlipped, hasTape, hatColor,
                currentHatImage, savedHat, gesture>>
statusVars == <<status, statusTimeoutRef, timers, due>>
imageVars  == <<baseImage, originalImageSize>>
ioVars     == <<uploads, exports>>
toggleVars == <<isFlipped, hasTape, hatColor, currentHatImage>>
dragVars   == <<isDragging, dragStart, gesture>>
\* history kept by the specifications that need it, next to the handlers
histVars   == <<trail, selected>>
vars == <<variant, transform, isDragging, dragStart, isFlipped, hasTape,
          hatColor, currentHatImage, savedHat, baseImage, originalImageSize,
          status, statusTimeoutRef, timers, due, uploads, exports, gesture,
          trail, selected, mounted>>

---------------------------------------------------------------------------
(* Bounds of the exploration. *)

\* pointer coordinates are drawn from 0..MaxCoord on each axis
MaxCoord == 1
\* explored positions have |x|, |y| <= MaxPos
MaxPos == MaxCoord
\* explored rotations have |rotation| <= RotateStep * MaxRot
MaxRot == 1
\* explored rotations of SpecRotate have |rotation| <= RotateStep * MaxRotDeep
MaxRotDeep == 25
\* explored scales of SpecRotate lie within ZoomWindow units of the initial scale
ZoomWindow == 12
\* rotate actions iterated by RotateN in the claims
MaxTurns == 24
\* uploads (file read, then image decode) in flight at once
MaxUploads == 1
\* invocations of handleSave in flight at once
MaxExports == 1
\* timer ids the browser hands out are drawn from 1..MaxTimers
MaxTimers == 3
\* milliseconds the clock advances in one step
TickLength == 500
\* uploads in flight at once in SpecUpload
MaxRacing == 2

\* container and image sides range over 1 .. MaxSide
MaxSide == 5

---------------------------------------------------------------------------
(* Values. *)

Variants == {"elizaTape", "ai16z", "sweety", "sweetyWindow", "elizaColor"}

Colors == {"orange", "blue"}

\* transform.scale is held in units of 1/ScaleUnit
ScaleUnit == 100

RotateStep == 15

\* the delay showStatus passes to setTimeout, in milliseconds
StatusDelay == 1000

MinScale == ScaleUnit \div 10

MaxScale == 7 * ScaleUnit

Pos(px, py) == [x |-> px, y |-> py]

IdentityTransform ==
    [position |-> Pos(0, 0), rotation |-> 0, scale |-> ScaleUnit, flipX |-> FALSE]

Coords == 0 .. MaxCoord

Contacts == {Pos(cx, cy) : cx \in Coords, cy \in Coords}

\* e.touches of a touch event: one or two contacts
TouchLists == {<<c>> : c \in Contacts} \cup {<<Pos(0, 0), Pos(MaxCoord, MaxCoord)>>}

\* baseImage before any upload: the empty string
NoImage == ""

\* the files the user can select; a file's data URL is identified with its name
Files == {"wide.png", "tall.png", "broken.png", "notes.txt"}

\* file.type, as a sequence of tokens
FileType(f) ==
    CASE f = "notes.txt" -> <<"text", "/", "plain">>
      [] OTHER -> <<"image", "/", "png">>

\* whether the browser can decode the file's data URL as an image
Decodes(f) == f \in {"wide.png", "tall.png"}

\* img.width and img.height of the decoded file
NativeSize(f) ==
    CASE f = "wide.png" -> [width |-> 2, height |-> 1]
      [] f = "tall.png" -> [width |-> 1, height |-> 2]
      [] OTHER -> [width |-> 0, height |-> 0]

\* status = null.  `supersedes` is history: whether the notification was issued
\* while the timer of an earlier one was still pending
NoStatus == [message |-> "", type |-> "none", supersedes |-> FALSE]

FreeUpload == [stage |-> "free", file |-> NoImage]

\* `transform` is the Transform handleSave closed over, `done` the steps the
\* invocation has taken so far
FreeExport ==
    [pc |-> "free", base |-> NoImage, size |-> [width |-> 0, height |-> 0],
     hat |-> "", decodeError |-> FALSE, transform |-> IdentityTransform,
     done |-> << >>]

NoGesture == [phase |-> "none", c0 |-> Pos(0, 0), p0 |-> Pos(0, 0), ck |-> Pos(0, 0)]

\* what the buttons act on: the Transform and the overlay variant with its toggles
EditorState ==
    [transform |-> transform, isFlipped |-> isFlipped, hasTape |-> hasTape,
     hatColor |-> hatColor, currentHatImage |-> currentHatImage]

NoEditor ==
    [transform |-> IdentityTransform, isFlipped |-> FALSE, hasTape |-> FALSE,
     hatColor |-> "orange", currentHatImage |-> ""]

\* no button pressed yet, or the last one was neither Flip nor Reset
NoTrail == [op |-> "none", run |-> 0, before |-> NoEditor, before2 |-> NoEditor]

\* the trail once button `op` has been pressed: the state it was pressed in and,
\* when the button pressed just before was the same one, the state before that
TrailAfter(op) ==
    [op |-> op,
     run |-> IF trail.op = op THEN 2 ELSE 1,
     before |-> EditorState,
     before2 |-> IF trail.op = op THEN trail.before ELSE NoEditor]

---------------------------------------------------------------------------
(* The overlay variant. *)

getHatImage(color, flipped, tape) ==
    IF color = "orange"
    THEN IF flipped
         THEN (IF tape THEN "orange-left-tape" ELSE "orange-left")
         ELSE (IF tape THEN "orange-right-tape" ELSE "orange-right")
    ELSE IF flipped
         THEN (IF tape THEN "blue-left-tape" ELSE "blue-left")
         ELSE (IF tape THEN "blue-right-tape" ELSE "blue-right")

\* the assets a variant imports
HatAssets(v) ==
    CASE v = "elizaColor" ->
           {"orange-right", "orange-left", "orange-right-tape", "orange-left-tape",
            "blue-right", "blue-left", "blue-right-tape", "blue-left-tape"}
      [] v = "elizaTape" -> {"right", "left", "right-tape", "left-tape"}
      [] OTHER -> {"right", "left"}

\* the asset a variant's handlers select for a toggle state: getHatImage in
\* "elizaColor", the conditionals of handleFlip, handleTape and handleReset in
\* the others.  "ai16z" holds no toggle state: the asset on display is the state
OverlaySelect(v, color, flipped, tape) ==
    CASE v = "elizaColor" -> getHatImage(color, flipped, tape)
      [] v = "elizaTape" ->
           IF flipped
           THEN (IF tape THEN "left-tape" ELSE "left")
           ELSE (IF tape THEN "right-tape" ELSE "right")
      [] v = "ai16z" -> currentHatImage
      [] OTHER -> IF flipped THEN "left" ELSE "right"

\* the flipped asset on display from the start
InitialHatFlipped(v) == IF v = "elizaColor" THEN "orange-left" ELSE "left"

\* useState initialiser of currentHatImage
InitialHat(v) == IF v = "elizaColor" THEN "orange-right" ELSE "right"

\* The currentHatImage that the handleSave of the next render closes over.
\* handleSave is rebuilt when one of its useCallback dependencies changed:
\* [baseImage, transform, originalImageSize], and in "sweetyWindow" also
\* currentHatImage.  Otherwise the handleSave of an earlier render is kept.
SaveClosureAfter(depsChanged, newHat) ==
    IF depsChanged \/ variant = "sweetyWindow" THEN newHat ELSE savedHat

---------------------------------------------------------------------------
(* Pointer interaction. *)

\* the grab offset taken to be the contact point, the position forgotten
GrabOffsetIgnoringPosition(contact, position) == contact

GrabOffset(contact, position) ==
    Pos(contact.x - position.x, contact.y - position.y)

DraggedPosition(contact, start) ==
    Pos(contact.x - start.x, contact.y - start.y)

GestureStarted(contact) ==
    [phase |-> "started", c0 |-> contact, p0 |-> transform.position, ck |-> contact]

GestureMoved(contact) ==
    IF gesture.phase \in {"started", "moved"}
    THEN [gesture EXCEPT !.phase = "moved", !.ck = contact]
    ELSE gesture

GestureEnded ==
    IF gesture.phase = "moved" THEN [gesture EXCEPT !.phase = "ended"]
    ELSE NoGesture

\* onMouseDown of the overlay
handleMouseDown(c) ==
    /\ isDragging' = TRUE
    /\ dragStart' = GrabOffset(c, transform.position)
    /\ gesture' = GestureStarted(c)
    /\ UNCHANGED <<variant, transform, isFlipped, hasTape, hatColor,
                   currentHatImage, savedHat, imageVars, statusVars, ioVars>>

\* the overlay following the pointer whether or not a drag is in progress
handleMouseMoveUndragged(c) ==
    /\ transform' = [transform EXCEPT !.position = DraggedPosition(c, dragStart)]
    /\ savedHat' = SaveClosureAfter(TRUE, currentHatImage)
    /\ gesture' = GestureMoved(c)
    /\ UNCHANGED <<variant, isDragging, dragStart, isFlipped, hasTape, hatColor,
                   currentHatImage, imageVars, statusVars, ioVars>>

\* onMouseMove of the container
handleMouseMove(c) ==
    /\ IF isDragging
       THEN /\ transform' = [transform EXCEPT !.position = DraggedPosition(c, dragStart)]
            /\ savedHat' = SaveClosureAfter(TRUE, currentHatImage)
            /\ gesture' = GestureMoved(c)
       ELSE UNCHANGED <<transform, savedHat, gesture>>
    /\ UNCHANGED <<variant, isDragging, dragStart, isFlipped, hasTape, hatColor,
                   currentHatImage, imageVars, statusVars, ioVars>>

\* onMouseUp and onMouseLeave of the container
handleMouseUp ==
    /\ isDragging' = FALSE
    /\ gesture' = GestureEnded
    /\ UNCHANGED <<variant, transform, dragStart, isFlipped, hasTape, hatColor,
                   currentHatImage, savedHat, imageVars, statusVars, ioVars>>

\* a drag started from the first contact, however many there are
handleTouchStartAnyContacts(touches) ==
    /\ isDragging' = TRUE
    /\ dragStart' = GrabOffset(touches[1], transform.position)
    /\ gesture' = GestureStarted(touches[1])
    /\ UNCHANGED <<variant, transform, isFlipped, hasTape, hatColor,
                   currentHatImage, savedHat, imageVars, statusVars, ioVars>>

\* onTouchStart of the overlay
handleTouchStart(touches) ==
    /\ IF Len(touches) = 1
       THEN /\ isDragging' = TRUE
            /\ dragStart' = GrabOffset(touches[1], transform.position)
            /\ gesture' = GestureStarted(touches[1])
       ELSE UNCHANGED <<isDragging, dragStart, gesture>>
    /\ UNCHANGED <<variant, transform, isFlipped, hasTape, hatColor,
                   currentHatImage, savedHat, imageVars, statusVars, ioVars>>

\* the position handleTouchMove leaves, from position p
TouchMovePosition(p, touches) ==
    IF isDragging /\ Len(touches) = 1
    THEN DraggedPosition(touches[1], dragStart)
    ELSE p

\* a second contact taken as a pinch that enlarges the overlay
handleTouchMovePinching(touches, times) ==
    /\ LET once == TouchMovePosition(transform.position, touches)
           last == IF times = 2 THEN TouchMovePosition(once, touches) ELSE once
       IN IF isDragging /\ Len(touches) = 1
          THEN /\ transform' = [transform EXCEPT !.position = last]
               /\ savedHat' = SaveClosureAfter(TRUE, currentHatImage)
               /\ gesture' = GestureMoved(touches[1])
          ELSE IF isDragging
          THEN /\ transform' = [transform EXCEPT !.scale = @ + (@ \div 10)]
               /\ UNCHANGED <<savedHat, gesture>>
          ELSE UNCHANGED <<transform, savedHat, gesture>>
    /\ UNCHANGED <<variant, isDragging, dragStart, isFlipped, hasTape, hatColor,
                   currentHatImage, imageVars, statusVars, ioVars>>

\* handleTouchMove, run `times` times for one event: the overlay and the
\* container both bind it, so a touchmove that targets the overlay runs it
\* on the overlay and again, bubbling, on the container
handleTouchMove(touches, times) ==
    /\ LET once == TouchMovePosition(transform.position, touches)
           last == IF times = 2 THEN TouchMovePosition(once, touches) ELSE once
       IN IF isDragging /\ Len(touches) = 1
          THEN /\ transform' = [transform EXCEPT !.position = last]
               /\ savedHat' = SaveClosureAfter(TRUE, currentHatImage)
               /\ gesture' = GestureMoved(touches[1])
          ELSE UNCHANGED <<transform, savedHat, gesture>>
    /\ UNCHANGED <<variant, isDragging, dragStart, isFlipped, hasTape, hatColor,
                   currentHatImage, imageVars, statusVars, ioVars>>

\* onTouchEnd of the overlay and the container, onTouchCancel of the container
handleTouchEnd ==
    /\ isDragging' = FALSE
    /\ gesture' = GestureEnded
    /\ UNCHANGED <<variant, transform, dragStart, isFlipped, hasTape, hatColor,
                   currentHatImage, savedHat, imageVars, statusVars, ioVars>>

---------------------------------------------------------------------------
(* Buttons: rotate, scale, flip, tape, colour, reset. *)

\* the rotation kept within one turn
RotationAfterWrapped(rotation, direction) ==
    (rotation + (IF direction = "left" THEN -RotateStep ELSE RotateStep)) % 360

RotationAfter(rotation, direction) ==
    rotation + (IF direction = "left" THEN -RotateStep ELSE RotateStep)

handleRotate(direction) ==
    /\ transform' = [transform EXCEPT !.rotation = RotationAfter(@, direction)]
    /\ savedHat' = SaveClosureAfter(TRUE, currentHatImage)
    /\ UNCHANGED <<variant, isDragging, dragStart, isFlipped, hasTape, hatColor,
                   currentHatImage, gesture, imageVars, statusVars, ioVars>>

\* x * 1.1 or x * 0.9, rounded to the nearest unit
ScaleProduct(scale, direction) ==
    ((scale * (IF direction = "up" THEN 11 ELSE 9)) + 5) \div 10

Max(a, b) == IF a >= b THEN a ELSE b

Min(a, b) == IF a <= b THEN a ELSE b

\* the scale left without the lower clamp
ScaleAfterNoFloor(scale, direction) ==
    Min(MaxScale, ScaleProduct(scale, direction))

\* the scale left without the upper clamp
ScaleAfterUnclamped(scale, direction) ==
    Max(MinScale, ScaleProduct(scale, direction))

\* Math.max(0.1, Math.min(7, prev.scale * (direction === 'up' ? 1.1 : 0.9)))
ScaleAfter(scale, direction) ==
    Max(MinScale, Min(MaxScale, ScaleProduct(scale, direction)))

handleScale(direction) ==
    /\ transform' = [transform EXCEPT !.scale = ScaleAfter(@, direction)]
    /\ savedHat' = SaveClosureAfter(TRUE, currentHatImage)
    /\ UNCHANGED <<variant, isDragging, dragStart, isFlipped, hasTape, hatColor,
                   currentHatImage, gesture, imageVars, statusVars, ioVars>>

\* the asset selected from the flip state alone, the accessory forgotten
FlippedHatWithoutTape ==
    IF variant = "elizaColor"
    THEN getHatImage(hatColor, ~isFlipped, FALSE)
    ELSE IF ~isFlipped /\ currentHatImage \notin {"left", "left-tape"}
         THEN "left" ELSE "right"

\* the asset handleFlip selects
FlippedHat ==
    CASE variant = "elizaTape" ->
           IF ~isFlipped
           THEN (IF hasTape THEN "left-tape" ELSE "left")
           ELSE (IF hasTape THEN "right-tape" ELSE "right")
      [] variant = "ai16z" ->
           IF currentHatImage = "right" THEN "left" ELSE "right"
      [] variant \in {"sweety", "sweetyWindow"} ->
           IF ~isFlipped THEN "left" ELSE "right"
      [] variant = "elizaColor" ->
           getHatImage(hatColor, ~isFlipped, hasTape)

\* the flip realised by mirroring the transform as well
handleFlipMirroring ==
    /\ isFlipped' = IF variant = "ai16z" THEN isFlipped ELSE ~isFlipped
    /\ currentHatImage' = FlippedHat
    /\ transform' = [transform EXCEPT !.flipX = ~@]
    /\ savedHat' = SaveClosureAfter(TRUE, FlippedHat)
    /\ UNCHANGED <<variant, isDragging, dragStart, hasTape, hatColor,
                   gesture, imageVars, statusVars, ioVars>>

handleFlip ==
    /\ isFlipped' = IF variant = "ai16z" THEN isFlipped ELSE ~isFlipped
    /\ currentHatImage' = FlippedHat
    /\ savedHat' = SaveClosureAfter(FALSE, FlippedHat)
    /\ UNCHANGED <<variant, transform, isDragging, dragStart, hasTape, hatColor,
                   gesture, imageVars, statusVars, ioVars>>

\* the accessory toggled on the unflipped asset, whatever the flip state
TapedHatUnflipped ==
    IF variant = "elizaTape"
    THEN (IF ~hasTape THEN "right-tape" ELSE "right")
    ELSE getHatImage(hatColor, FALSE, ~hasTape)

\* the asset handleTape selects
TapedHat ==
    IF variant = "elizaTape"
    THEN IF isFlipped
         THEN (IF ~hasTape THEN "left-tape" ELSE "left")
         ELSE (IF ~hasTape THEN "right-tape" ELSE "right")
    ELSE getHatImage(hatColor, isFlipped, ~hasTape)

handleTape ==
    /\ variant \in {"elizaTape", "elizaColor"}
    /\ hasTape' = ~hasTape
    /\ currentHatImage' = TapedHat
    /\ savedHat' = SaveClosureAfter(FALSE, TapedHat)
    /\ UNCHANGED <<variant, transform, isDragging, dragStart, isFlipped, hatColor,
                   gesture, imageVars, statusVars, ioVars>>

handleColorChange(newColor) ==
    /\ variant = "elizaColor"
    /\ hatColor' = newColor
    /\ currentHatImage' = getHatImage(newColor, isFlipped, hasTape)
    /\ savedHat' = SaveClosureAfter(FALSE, getHatImage(newColor, isFlipped, hasTape))
    /\ UNCHANGED <<variant, transform, isDragging, dragStart, isFlipped, hasTape,
                   gesture, imageVars, statusVars, ioVars>>

\* the asset of a reset that flips the one on display
ResetHatByFlipping == FlippedHat

\* the asset shown after handleReset
ResetHat ==
    CASE variant = "ai16z" -> currentHatImage
      [] variant = "elizaColor" -> getHatImage(hatColor, FALSE, FALSE)
      [] OTHER -> "right"

\* a reset that also lets go of the overlay
handleResetEndingDrag ==
    /\ transform' = IdentityTransform
    /\ hasTape' = FALSE
    /\ isFlipped' = FALSE
    /\ currentHatImage' = ResetHat
    /\ savedHat' = SaveClosureAfter(TRUE, ResetHat)
    /\ isDragging' = FALSE
    /\ gesture' = NoGesture
    /\ UNCHANGED <<variant, dragStart, hatColor, imageVars, statusVars, ioVars>>

handleReset ==
    /\ transform' = IdentityTransform
    /\ hasTape' = FALSE
    /\ isFlipped' = FALSE
    /\ currentHatImage' = ResetHat
    /\ savedHat' = SaveClosureAfter(TRUE, ResetHat)
    /\ gesture' = IF gesture.phase = "moved"
                  THEN [gesture EXCEPT !.phase = "started"]
                  ELSE IF gesture.phase = "ended" THEN NoGesture ELSE gesture
    /\ UNCHANGED <<variant, isDragging, dragStart, hatColor,
                   imageVars, statusVars, ioVars>>

---------------------------------------------------------------------------
(* The status notification and its dismissal timer. *)

\* the id setTimeout returns: one the browser has not handed out before
FreshTimer ==
    CHOOSE id \in 1 .. MaxTimers :
        /\ id \notin timers \cup {statusTimeoutRef}
        /\ \A other \in 1 .. MaxTimers :
              other \notin timers \cup {statusTimeoutRef} => id <= other

HasFreshTimer == \E id \in 1 .. MaxTimers : id \notin timers \cup {statusTimeoutRef}

\* the earlier timer left pending
TimersNotCleared == timers

\* if (statusTimeoutRef.current) clearTimeout(statusTimeoutRef.current)
TimersAfterClear == timers \ {statusTimeoutRef}

\* the new timer due when the one it supersedes was
DueInherited ==
    [id \in TimersAfterClear \cup {FreshTimer} |->
        IF id # FreshTimer THEN due[id]
        ELSE IF statusTimeoutRef \in timers THEN due[statusTimeoutRef]
        ELSE StatusDelay]

\* setTimeout(..., 1000): the new timer is due a full delay from now
DueAfterShow ==
    [id \in TimersAfterClear \cup {FreshTimer} |->
        IF id = FreshTimer THEN StatusDelay ELSE due[id]]

showStatus(message, type) ==
    /\ HasFreshTimer
    /\ status' = [message |-> message, type |-> type,
                  supersedes |-> statusTimeoutRef \in timers]
    /\ timers' = TimersAfterClear \cup {FreshTimer}
    /\ due' = DueAfterShow
    /\ statusTimeoutRef' = FreshTimer

\* the callback of the setTimeout of showStatus
statusTimeout(id) ==
    /\ id \in timers
    /\ timers' = timers \ {id}
    /\ due' = [other \in timers \ {id} |-> due[other]]
    /\ status' = NoStatus
    /\ UNCHANGED <<variant, editVars, imageVars, statusTimeoutRef, ioVars>>

\* the clock advances by TickLength; a timer that is due fires before it does
Tick ==
    /\ timers # {}
    /\ \A id \in timers : due[id] > 0
    /\ due' = [id \in timers |-> Max(0, due[id] - TickLength)]
    /\ UNCHANGED <<variant, editVars, imageVars, status, statusTimeoutRef,
                   timers, ioVars>>

\* the browser runs the callback of a timer that is due
timerFires(id) ==
    /\ id \in timers
    /\ due[id] = 0
    /\ statusTimeout(id)

---------------------------------------------------------------------------
(* Upload of the base image. *)

StartsWith(seq, prefix) ==
    /\ Len(seq) >= Len(prefix)
    /\ SubSeq(seq, 1, Len(prefix)) = prefix

\* the media type left unchecked
AnyFileAccepted(f) == Len(FileType(f)) > 0

\* file.type.startsWith('image/')
IsImageFile(f) == StartsWith(FileType(f), <<"image", "/">>)

FreeUploadSlots == {u \in DOMAIN uploads : uploads[u].stage = "free"}

LowestOf(S) == CHOOSE n \in S : \A m \in S : n <= m

\* onChange of the file input, with the file selected
handleBaseImageUpload(f) ==
    IF ~IsImageFile(f)
    THEN /\ showStatus("Please select an image file", "error")
         /\ UNCHANGED <<variant, editVars, imageVars, ioVars>>
    ELSE /\ FreeUploadSlots # {}
         /\ uploads' = [uploads EXCEPT ![LowestOf(FreeUploadSlots)] =
                            [stage |-> "reading", file |-> f]]
         /\ UNCHANGED <<variant, editVars, imageVars, statusVars, exports>>

\* reader.onload: the data URL is ready
readerOnload(u) ==
    /\ uploads[u].stage = "reading"
    /\ uploads' = [uploads EXCEPT ![u].stage = "decoding"]
    /\ baseImage' = uploads[u].file
    /\ savedHat' = SaveClosureAfter(baseImage # uploads[u].file, currentHatImage)
    /\ UNCHANGED <<variant, transform, dragVars, toggleVars, originalImageSize,
                   statusVars, exports>>

\* the overlay put back at the centre of a newly loaded image
imgOnloadRecentring(u) ==
    /\ uploads[u].stage = "decoding"
    /\ Decodes(uploads[u].file)
    /\ uploads' = [uploads EXCEPT ![u] = FreeUpload]
    /\ originalImageSize' = NativeSize(uploads[u].file)
    /\ transform' = [transform EXCEPT !.position = Pos(0, 0)]
    /\ savedHat' = SaveClosureAfter(TRUE, currentHatImage)
    /\ showStatus("Image loaded successfully", "success")
    /\ UNCHANGED <<variant, dragVars, toggleVars, baseImage, exports>>

\* img.onload of the upload's Image
imgOnload(u) ==
    /\ uploads[u].stage = "decoding"
    /\ Decodes(uploads[u].file)
    /\ uploads' = [uploads EXCEPT ![u] = FreeUpload]
    /\ originalImageSize' = NativeSize(uploads[u].file)
    /\ savedHat' = SaveClosureAfter(TRUE, currentHatImage)
    /\ showStatus("Image loaded successfully", "success")
    /\ UNCHANGED <<variant, transform, dragVars, toggleVars, baseImage,
                   exports>>

\* the error event of the upload's Image: no handler is bound
imgOnerror(u) ==
    /\ uploads[u].stage = "decoding"
    /\ ~Decodes(uploads[u].file)
    /\ uploads' = [uploads EXCEPT ![u] = FreeUpload]
    /\ UNCHANGED <<variant, editVars, imageVars, statusVars, exports>>

---------------------------------------------------------------------------
(* Export: the async handleSave, one action per stretch between awaits. *)

FreeExportSlots == {e \in DOMAIN exports : exports[e].pc = "free"}

\* the guard of handleSave left out
SaveNeverRefused == FALSE

\* if (!baseImage || !overlayRef.current || !containerRef.current):
\* both refs are set while the component is mounted
SaveRefused == baseImage = NoImage

\* the invocation as it stands at `await new Promise(resolve => baseImg.onload = resolve)`
ExportStartedBothDecodes ==
    [pc |-> "awaitBase", base |-> baseImage, size |-> originalImageSize,
     hat |-> savedHat, decodeError |-> FALSE, transform |-> transform,
     done |-> <<"startBaseDecode", "startHatDecode">>]

ExportStarted ==
    [pc |-> "awaitBase", base |-> baseImage, size |-> originalImageSize,
     hat |-> savedHat, decodeError |-> FALSE, transform |-> transform,
     done |-> <<"startBaseDecode">>]

\* what handleSave does between its two awaits
StepsAfterBaseDecode == <<"baseDecoded", "sizeCanvas", "drawBase", "startHatDecode">>

\* what handleSave does after its second await
StepsAfterHatDecode == <<"hatDecoded", "drawHat", "download", "notifySaved">>

\* link.download
FileName(v) ==
    CASE v \in {"elizaTape", "ai16z"} -> "you-are-a-partner-now.png"
      [] v = "elizaColor" -> "eliza-hat.png"
      [] OTHER -> "sweetychat-hat.png"

\* the image link.click() downloads: canvas.toDataURL of the canvas handleSave
\* sized to its originalImageSize and drew its base image and overlay on
Download(ex) ==
    [width |-> ex.size.width, height |-> ex.size.height,
     base |-> ex.base, hat |-> ex.hat, transform |-> ex.transform,
     filename |-> FileName(variant)]

\* the export started without looking at the drawing context
handleSaveContextUnchecked(ctxOk) ==
    IF SaveRefused
    THEN /\ showStatus("Please upload an image first", "error")
         /\ UNCHANGED <<variant, editVars, imageVars, ioVars>>
    ELSE /\ FreeExportSlots # {}
         /\ exports' = [exports EXCEPT ![LowestOf(FreeExportSlots)] = ExportStarted]
         /\ UNCHANGED <<variant, editVars, imageVars, statusVars, uploads>>

\* onClick of Save Image, up to the first await; ctxOk: getContext('2d') is not null
handleSave(ctxOk) ==
    IF SaveRefused
    THEN /\ showStatus("Please upload an image first", "error")
         /\ UNCHANGED <<variant, editVars, imageVars, ioVars>>
    ELSE IF ~ctxOk
    THEN /\ showStatus("Error saving image", "error")
         /\ UNCHANGED <<variant, editVars, imageVars, ioVars>>
    ELSE /\ FreeExportSlots # {}
         /\ exports' = [exports EXCEPT ![LowestOf(FreeExportSlots)] = ExportStarted]
         /\ UNCHANGED <<variant, editVars, imageVars, statusVars, uploads>>

\* the export waiting for every earlier invocation to have finished
baseImgOnloadAfterEarlier(e) ==
    /\ exports[e].pc = "awaitBase"
    /\ ~exports[e].decodeError
    /\ Decodes(exports[e].base)
    /\ \A earlier \in DOMAIN exports : earlier < e => exports[earlier].pc = "free"
    /\ exports' = [exports EXCEPT ![e].pc = "awaitHat",
                                  ![e].done = @ \o StepsAfterBaseDecode]
    /\ UNCHANGED <<variant, editVars, imageVars, statusVars, uploads>>

\* the export adopting the size of the base image it has decoded
baseImgOnloadResizing(e) ==
    /\ exports[e].pc = "awaitBase"
    /\ ~exports[e].decodeError
    /\ Decodes(exports[e].base)
    /\ exports' = [exports EXCEPT ![e].pc = "awaitHat",
                                  ![e].done = @ \o StepsAfterBaseDecode]
    /\ originalImageSize' = NativeSize(exports[e].base)
    /\ savedHat' = SaveClosureAfter(TRUE, currentHatImage)
    /\ UNCHANGED <<variant, transform, dragVars, toggleVars, baseImage,
                   statusVars, uploads>>

\* baseImg.onload: the canvas is sized and the base drawn, then
\* `await new Promise(resolve => hatImg.onload = resolve)`
baseImgOnload(e) ==
    /\ exports[e].pc = "awaitBase"
    /\ ~exports[e].decodeError
    /\ Decodes(exports[e].base)
    /\ exports' = [exports EXCEPT ![e].pc = "awaitHat",
                                  ![e].done = @ \o StepsAfterBaseDecode]
    /\ UNCHANGED <<variant, editVars, imageVars, statusVars, uploads>>

\* the error event of an Image handleSave awaits: only onload is bound, so the
\* promise is never settled
DecodeErrorExport(ex) == [ex EXCEPT !.decodeError = TRUE]

baseImgOnerror(e) ==
    /\ exports[e].pc = "awaitBase"
    /\ ~exports[e].decodeError
    /\ ~Decodes(exports[e].base)
    /\ exports' = [exports EXCEPT ![e] = DecodeErrorExport(@)]
    /\ UNCHANGED <<variant, editVars, imageVars, statusVars, uploads>>

\* the export failing after link.click(), so that the catch block runs
hatImgOnloadThenFailing(e) ==
    /\ exports[e].pc = "awaitHat"
    /\ ~exports[e].decodeError
    /\ exports' = [exports EXCEPT ![e] = FreeExport]
    /\ showStatus("Error saving image", "error")
    /\ UNCHANGED <<variant, editVars, imageVars, uploads>>

\* hatImg.onload: the overlay is drawn, link.click() downloads the canvas
hatImgOnload(e) ==
    /\ exports[e].pc = "awaitHat"
    /\ ~exports[e].decodeError
    /\ exports' = [exports EXCEPT ![e] = FreeExport]
    /\ showStatus("Image saved successfully", "success")
    /\ UNCHANGED <<variant, editVars, imageVars, uploads>>

\* the overlay asset cannot be fetched or decoded
hatImgOnerror(e) ==
    /\ exports[e].pc = "awaitHat"
    /\ ~exports[e].decodeError
    /\ exports' = [exports EXCEPT ![e] = DecodeErrorExport(@)]
    /\ UNCHANGED <<variant, editVars, imageVars, statusVars, uploads>>

---------------------------------------------------------------------------
(* The overlay's affine transform, on the export canvas and in the preview. *)
(* A matrix is the canvas's (a, b, c, d, e, f) with a common denominator:   *)
(* the point (x, y) goes to ((a x + c y + e) / den, (b x + d y + f) / den).  *)

\* sines and cosines are held in units of 1/TrigUnit
TrigUnit == 1000

\* TrigUnit * sin of 0, 15, ..., 90 degrees
SinTable == <<0, 259, 500, 707, 866, 966, 1000>>

Sin(deg) ==
    LET a == deg % 360
    IN IF a <= 90 THEN SinTable[(a \div RotateStep) + 1]
       ELSE IF a <= 180 THEN SinTable[((180 - a) \div RotateStep) + 1]
       ELSE IF a <= 270 THEN -SinTable[((a - 180) \div RotateStep) + 1]
       ELSE -SinTable[((360 - a) \div RotateStep) + 1]

Cos(deg) == Sin(deg + 90)

IdentityMatrix == [a |-> 1, b |-> 0, c |-> 0, d |-> 1, e |-> 0, f |-> 0, den |-> 1]

\* the current matrix multiplied on the right by a translation
Translated(m, tx, ty) ==
    [m EXCEPT !.e = (m.a * tx) + (m.c * ty) + m.e,
              !.f = (m.b * tx) + (m.d * ty) + m.f]

\* the current matrix multiplied on the right by a rotation
Rotated(m, deg) ==
    [a |-> (m.a * Cos(deg)) + (m.c * Sin(deg)),
     b |-> (m.b * Cos(deg)) + (m.d * Sin(deg)),
     c |-> (m.c * Cos(deg)) - (m.a * Sin(deg)),
     d |-> (m.d * Cos(deg)) - (m.b * Sin(deg)),
     e |-> m.e * TrigUnit,
     f |-> m.f * TrigUnit,
     den |-> m.den * TrigUnit]

\* the current matrix multiplied on the right by a scaling by (sx / unit, sy / unit)
Scaled(m, sx, sy, unit) ==
    [a |-> m.a * sx, b |-> m.b * sx, c |-> m.c * sy, d |-> m.d * sy,
     e |-> m.e * unit, f |-> m.f * unit, den |-> m.den * unit]

Apply(m, x, y) ==
    [x |-> (m.a * x) + (m.c * y) + m.e,
     y |-> (m.b * x) + (m.d * y) + m.f,
     den |-> m.den]

\* (deg * Math.PI) / 180: radians, as a multiple piNum / piDen of pi
RadiansOfDegrees(deg) == [piNum |-> deg, piDen |-> 180]

\* the angle the canvas turns by, given radians
DegreesOfRadians(rad) == (rad.piNum * 180) \div rad.piDen

\* the canvas calls with the rotation made before the translation
CanvasMatrixRotateFirst(tr, centre, fit) ==
    LET turned == Rotated(IdentityMatrix, DegreesOfRadians(RadiansOfDegrees(tr.rotation)))
        moved == Translated(turned, centre.x + (tr.position.x * fit),
                                    centre.y + (tr.position.y * fit))
        mirrored == IF tr.flipX THEN Scaled(moved, -1, 1, 1) ELSE moved
    IN Scaled(mirrored, tr.scale, tr.scale, ScaleUnit)

\* the base image made to cover the container, cropped rather than letterboxed
CoverFit(containerWidth, containerHeight, nativeWidth, nativeHeight) ==
    IF containerWidth * nativeHeight > nativeWidth * containerHeight
    THEN [width |-> [num |-> containerWidth, den |-> 1],
          height |-> [num |-> containerWidth * nativeHeight, den |-> nativeWidth]]
    ELSE [width |-> [num |-> containerHeight * nativeWidth, den |-> nativeHeight],
          height |-> [num |-> containerHeight, den |-> 1]]

\* handleSave: displayedWidth and displayedHeight, as exact fractions.
\* containerAspect > imageAspect is cw / ch > W / H, and then
\* displayedWidth = displayedHeight * imageAspect = ch * W / H;
\* otherwise displayedHeight = displayedWidth / imageAspect = cw * H / W
ContainFit(containerWidth, containerHeight, nativeWidth, nativeHeight) ==
    IF containerWidth * nativeHeight > nativeWidth * containerHeight
    THEN [width |-> [num |-> containerHeight * nativeWidth, den |-> nativeHeight],
          height |-> [num |-> containerHeight, den |-> 1]]
    ELSE [width |-> [num |-> containerWidth, den |-> 1],
          height |-> [num |-> containerWidth * nativeHeight, den |-> nativeWidth]]

\* scaleX = canvas.width / displayedWidth, scaleY = canvas.height / displayedHeight
FitFactors(displayed, nativeWidth, nativeHeight) ==
    [x |-> [num |-> nativeWidth * displayed.width.den, den |-> displayed.width.num],
     y |-> [num |-> nativeHeight * displayed.height.den, den |-> displayed.height.num]]

\* handleSave: ctx.translate, ctx.rotate, ctx.scale(-1, 1) if flipX, ctx.scale;
\* centre is the canvas centre, fit is scaleX = scaleY
CanvasMatrix(tr, centre, fit) ==
    LET moved == Translated(IdentityMatrix, centre.x + (tr.position.x * fit),
                                            centre.y + (tr.position.y * fit))
        turned == Rotated(moved, DegreesOfRadians(RadiansOfDegrees(tr.rotation)))
        mirrored == IF tr.flipX THEN Scaled(turned, -1, 1, 1) ELSE turned
    IN Scaled(mirrored, tr.scale, tr.scale, ScaleUnit)

\* where the export draws corner (sx, sy) of the overlay, sx, sy in {-1, 1}:
\* drawImage(hatImg, -overlayWidth / 2, -overlayHeight / 2, ...), the overlay's
\* half-size being half.w * fit by half.h * fit on the canvas
CanvasCorner(tr, centre, fit, half, sx, sy) ==
    Apply(CanvasMatrix(tr, centre, fit), sx * half.w * fit, sy * half.h * fit)

\* getOverlayStyle: translate(-50%, -50%) translate(x, y) rotate(r) scale(+-s, s)
PreviewMatrix(tr, half) ==
    LET centred == Translated(IdentityMatrix, -half.w, -half.h)
        moved == Translated(centred, tr.position.x, tr.position.y)
        turned == Rotated(moved, tr.rotation)
    IN Scaled(turned, tr.scale * (IF tr.flipX THEN -1 ELSE 1), tr.scale, ScaleUnit)

\* where the preview shows corner (sx, sy) of the overlay, relative to the
\* container's centre: the element's corner is placed there (top-1/2 left-1/2)
\* and the transform acts about the element's centre
PreviewCorner(tr, half, sx, sy) ==
    LET m == PreviewMatrix(tr, half)
        q == Apply(m, sx * half.w, sy * half.h)
    IN [x |-> (half.w * m.den) + q.x, y |-> (half.h * m.den) + q.y, den |-> m.den]

---------------------------------------------------------------------------
(* Initial state: the component after mount. *)

---------------------------------------------------------------------------
(* Unmount, and the callbacks that run after it.  React drops the state
   updates of an unmounted component and sets its refs to DOM nodes to null;
   timers, file reads, image decodes and the awaits of handleSave go on. *)

\* the cleanup of the effect: clearTimeout(statusTimeoutRef.current)
unmount ==
    /\ mounted
    /\ mounted' = FALSE
    /\ timers' = TimersAfterClear
    /\ due' = [id \in TimersAfterClear |-> due[id]]
    /\ UNCHANGED <<variant, editVars, imageVars, status, statusTimeoutRef, ioVars,
                   histVars>>

\* showStatus called after unmount: setStatus is dropped, the timers are not
showStatusUnmounted ==
    /\ HasFreshTimer
    /\ timers' = TimersAfterClear \cup {FreshTimer}
    /\ due' = DueAfterShow
    /\ statusTimeoutRef' = FreshTimer
    /\ UNCHANGED status

\* the timer's callback after unmount: setStatus(null) is dropped
statusTimeoutUnmounted(id) ==
    /\ ~mounted
    /\ id \in timers
    /\ timers' = timers \ {id}
    /\ due' = [other \in timers \ {id} |-> due[other]]
    /\ UNCHANGED <<variant, editVars, imageVars, status, statusTimeoutRef, ioVars,
                   histVars, mounted>>

\* reader.onload after unmount: setBaseImage is dropped, the decode starts
readerOnloadUnmounted(u) ==
    /\ ~mounted
    /\ uploads[u].stage = "reading"
    /\ uploads' = [uploads EXCEPT ![u].stage = "decoding"]
    /\ UNCHANGED <<variant, editVars, imageVars, statusVars, exports, histVars,
                   mounted>>

\* img.onload after unmount: setOriginalImageSize is dropped, showStatus runs
imgOnloadUnmounted(u) ==
    /\ ~mounted
    /\ uploads[u].stage = "decoding"
    /\ Decodes(uploads[u].file)
    /\ uploads' = [uploads EXCEPT ![u] = FreeUpload]
    /\ showStatusUnmounted
    /\ UNCHANGED <<variant, editVars, imageVars, exports, histVars, mounted>>

\* baseImg.onload after unmount: containerRef.current is null, so
\* container.getBoundingClientRect() throws and the catch block runs
baseImgOnloadUnmounted(e) ==
    /\ ~mounted
    /\ exports[e].pc = "awaitBase"
    /\ ~exports[e].decodeError
    /\ Decodes(exports[e].base)
    /\ exports' = [exports EXCEPT ![e] = FreeExport]
    /\ showStatusUnmounted
    /\ UNCHANGED <<variant, editVars, imageVars, uploads, histVars, mounted>>

\* hatImg.onload after unmount: the overlay is drawn and the canvas downloaded
\* from what the invocation already holds, then showStatus runs
hatImgOnloadUnmounted(e) ==
    /\ ~mounted
    /\ exports[e].pc = "awaitHat"
    /\ ~exports[e].decodeError
    /\ exports' = [exports EXCEPT ![e] = FreeExport]
    /\ showStatusUnmounted
    /\ UNCHANGED <<variant, editVars, imageVars, uploads, histVars, mounted>>

\* the component after mount, with room for `slots` uploads and `saves`
\* invocations of handleSave in flight
Mounted(slots, saves) ==
    /\ variant \in Variants
    /\ transform = IdentityTransform
    /\ isDragging = FALSE
    /\ dragStart = Pos(0, 0)
    /\ isFlipped = FALSE
    /\ hasTape = FALSE
    /\ hatColor = "orange"
    /\ currentHatImage = InitialHat(variant)
    /\ savedHat = InitialHat(variant)
    /\ baseImage = NoImage
    /\ originalImageSize = [width |-> 0, height |-> 0]
    /\ status = NoStatus
    /\ statusTimeoutRef = 0
    /\ timers = {}
    /\ due = [id \in {} |-> 0]
    /\ uploads = [u \in 1 .. slots |-> FreeUpload]
    /\ exports = [e \in 1 .. saves |-> FreeExport]
    /\ gesture = NoGesture
    /\ trail = NoTrail
    /\ selected = NoImage
    /\ mounted = TRUE

Init == Mounted(MaxUploads, MaxExports)

InitUpload == Mounted(MaxRacing, MaxExports)

InitRetry == Mounted(MaxUploads, MaxRacing)

---------------------------------------------------------------------------
(* Exploration windows, stated on the successor state. *)

Abs(n) == IF n < 0 THEN -n ELSE n

PositionInWindow ==
    /\ Abs(transform.position.x) <= MaxPos
    /\ Abs(transform.position.y) <= MaxPos

RotationInWindow(maxRot) == Abs(transform.rotation) <= RotateStep * maxRot

ScaleInWindow == Abs(transform.scale - ScaleUnit) <= ZoomWindow

\* a step of the mounted editor that keeps no history
Quiet == UNCHANGED histVars /\ UNCHANGED mounted

Pointer ==
    \/ \E c \in Contacts : handleMouseDown(c) /\ Quiet
    \/ \E c \in Contacts : handleMouseMove(c) /\ PositionInWindow' /\ Quiet
    \/ handleMouseUp /\ Quiet
    \/ \E t \in TouchLists : handleTouchStart(t) /\ Quiet
    \/ \E t \in TouchLists, n \in {1, 2} :
          handleTouchMove(t, n) /\ PositionInWindow' /\ Quiet
    \/ handleTouchEnd /\ Quiet

Toggles ==
    \/ handleFlip /\ Quiet
    \/ handleTape /\ Quiet
    \/ \E c \in Colors : handleColorChange(c) /\ Quiet

\* pointer interaction, with the buttons that change what a drag reads
Next ==
    \/ Pointer
    \/ \E d \in {"left", "right"} :
          handleRotate(d) /\ RotationInWindow(MaxRot)' /\ Quiet
    \/ handleFlip /\ Quiet
    \/ handleReset /\ Quiet

Spec == Init /\ [][Next]_vars

\* scale explored over its whole range
NextScale ==
    \/ \E d \in {"up", "down"} : handleScale(d) /\ Quiet
    \/ \E d \in {"left", "right"} : handleRotate(d) /\ RotationInWindow(1)' /\ Quiet
    \/ Toggles
    \/ handleReset /\ Quiet

SpecScale == Init /\ [][NextScale]_vars

\* rotation explored beyond a full turn
NextRotate ==
    \/ \E d \in {"left", "right"} :
          handleRotate(d) /\ RotationInWindow(MaxRotDeep)' /\ Quiet
    \/ \E d \in {"up", "down"} : handleScale(d) /\ ScaleInWindow' /\ Quiet
    \/ handleFlip /\ Quiet
    \/ handleReset /\ Quiet

SpecRotate == Init /\ [][NextRotate]_vars

\* a step after which the last button pressed is neither Flip nor Reset
Forget == trail' = NoTrail /\ UNCHANGED <<selected, mounted>>

\* the buttons, with the trail of the last two presses
NextToggle ==
    \/ handleFlip /\ trail' = TrailAfter("flip") /\ UNCHANGED <<selected, mounted>>
    \/ handleReset /\ trail' = TrailAfter("reset") /\ UNCHANGED <<selected, mounted>>
    \/ handleTape /\ Forget
    \/ \E c \in Colors : handleColorChange(c) /\ Forget
    \/ \E d \in {"left", "right"} :
          handleRotate(d) /\ RotationInWindow(MaxRot)' /\ Forget
    \/ \E d \in {"up", "down"} : handleScale(d) /\ ScaleInWindow' /\ Forget

SpecToggle == Init /\ [][NextToggle]_vars

\* the notifications against the clock: uploads and refused or failed saves
\* issue them, time passes, timers fire when due
NextStatus ==
    \/ \E f \in Files : handleBaseImageUpload(f) /\ Quiet
    \/ \E u \in 1 .. MaxUploads : readerOnload(u) /\ Quiet
    \/ \E u \in 1 .. MaxUploads : imgOnload(u) /\ Quiet
    \/ \E u \in 1 .. MaxUploads : imgOnerror(u) /\ Quiet
    \/ \E ctxOk \in BOOLEAN : handleSave(ctxOk) /\ exports' = exports /\ Quiet
    \/ Tick /\ Quiet
    \/ \E id \in 1 .. MaxTimers : timerFires(id) /\ Quiet

\* the clock keeps running and the event loop runs the timers that are due
SpecStatus ==
    /\ Init
    /\ [][NextStatus]_vars
    /\ WF_vars(Tick /\ Quiet)
    /\ \A id \in 1 .. MaxTimers : WF_vars(timerFires(id) /\ Quiet)

\* uploads racing one another: each file read and each image decode completes
\* on its own, in any order
NextUpload ==
    \/ \E f \in Files :
          /\ handleBaseImageUpload(f)
          /\ selected' = IF IsImageFile(f) THEN f ELSE selected
          /\ UNCHANGED <<trail, mounted>>
    \/ \E u \in 1 .. MaxRacing : readerOnload(u) /\ Quiet
    \/ \E u \in 1 .. MaxRacing : imgOnload(u) /\ Quiet
    \/ \E u \in 1 .. MaxRacing : imgOnerror(u) /\ Quiet
    \/ \E id \in 1 .. MaxTimers : statusTimeout(id) /\ Quiet

SpecUpload == InitUpload /\ [][NextUpload]_vars

\* exports overlapping one another: a second handleSave while the first is at
\* an await or has failed there
NextRetry ==
    \/ \E f \in Files \ {"tall.png"} : handleBaseImageUpload(f) /\ Quiet
    \/ \E u \in 1 .. MaxUploads : readerOnload(u) /\ Quiet
    \/ \E u \in 1 .. MaxUploads : imgOnload(u) /\ Quiet
    \/ \E u \in 1 .. MaxUploads : imgOnerror(u) /\ Quiet
    \/ \E ctxOk \in BOOLEAN : handleSave(ctxOk) /\ Quiet
    \/ \E e \in 1 .. MaxRacing : baseImgOnload(e) /\ Quiet
    \/ \E e \in 1 .. MaxRacing : baseImgOnerror(e) /\ Quiet
    \/ \E e \in 1 .. MaxRacing : hatImgOnload(e) /\ Quiet
    \/ \E e \in 1 .. MaxRacing : hatImgOnerror(e) /\ Quiet

SpecRetry == InitRetry /\ [][NextRetry]_vars

\* an export with the rotate and scale buttons pressed while it is at an await
NextDraw ==
    \/ \E f \in Files \ {"tall.png"} : handleBaseImageUpload(f) /\ Quiet
    \/ \E u \in 1 .. MaxUploads : readerOnload(u) /\ Quiet
    \/ \E u \in 1 .. MaxUploads : imgOnload(u) /\ Quiet
    \/ \E u \in 1 .. MaxUploads : imgOnerror(u) /\ Quiet
    \/ \E ctxOk \in BOOLEAN : handleSave(ctxOk) /\ Quiet
    \/ \E e \in 1 .. MaxExports : baseImgOnload(e) /\ Quiet
    \/ \E e \in 1 .. MaxExports : baseImgOnerror(e) /\ Quiet
    \/ \E e \in 1 .. MaxExports : hatImgOnload(e) /\ Quiet
    \/ \E e \in 1 .. MaxExports : hatImgOnerror(e) /\ Quiet
    \/ \E d \in {"left", "right"} :
          handleRotate(d) /\ RotationInWindow(MaxRot)' /\ Quiet
    \/ handleScale("up") /\ transform'.scale <= ScaleAfter(ScaleUnit, "up") /\ Quiet

SpecDraw == Init /\ [][NextDraw]_vars

\* moving, turning and resizing the overlay over an uploaded image
NextTransform ==
    \/ Pointer
    \/ \E d \in {"left", "right"} :
          handleRotate(d) /\ RotationInWindow(MaxRot)' /\ Quiet
    \/ \E d \in {"up", "down"} :
          handleScale(d) /\ transform.scale = ScaleUnit /\ Quiet
    \/ \E f \in {"wide.png"} : handleBaseImageUpload(f) /\ Quiet
    \/ \E u \in 1 .. MaxUploads :
          \/ readerOnload(u) /\ Quiet
          \/ imgOnload(u) /\ Quiet

SpecTransform == Init /\ [][NextTransform]_vars


\* the Reset button pressed while the overlay is dragged over an uploaded image
NextReset ==
    \/ Pointer
    \/ handleReset /\ Quiet
    \/ \E f \in {"wide.png"} : handleBaseImageUpload(f) /\ Quiet
    \/ \E u \in 1 .. MaxUploads :
          \/ readerOnload(u) /\ Quiet
          \/ imgOnload(u) /\ Quiet

SpecReset == Init /\ [][NextReset]_vars

\* the editor unmounted while notifications, uploads and exports are pending
NextUnmount ==
    \/ \E f \in {"wide.png", "notes.txt"} :
          mounted /\ handleBaseImageUpload(f) /\ Quiet
    \/ \E u \in 1 .. MaxUploads : mounted /\ readerOnload(u) /\ Quiet
    \/ \E u \in 1 .. MaxUploads : mounted /\ imgOnload(u) /\ Quiet
    \/ \E ctxOk \in BOOLEAN : mounted /\ handleSave(ctxOk) /\ Quiet
    \/ \E e \in 1 .. MaxExports : mounted /\ baseImgOnload(e) /\ Quiet
    \/ \E e \in 1 .. MaxExports : mounted /\ hatImgOnload(e) /\ Quiet
    \/ \E id \in 1 .. MaxTimers : mounted /\ statusTimeout(id) /\ Quiet
    \/ unmount
    \/ \E u \in 1 .. MaxUploads : readerOnloadUnmounted(u)
    \/ \E u \in 1 .. MaxUploads : imgOnloadUnmounted(u)
    \/ \E e \in 1 .. MaxExports : baseImgOnloadUnmounted(e)
    \/ \E e \in 1 .. MaxExports : hatImgOnloadUnmounted(e)
    \/ \E id \in 1 .. MaxTimers : statusTimeoutUnmounted(id)

SpecUnmount == Init /\ [][NextUnmount]_vars

\* upload, export and the status notification
NextExport ==
    \/ \E f \in Files : handleBaseImageUpload(f) /\ Quiet
    \/ \E u \in 1 .. MaxUploads : readerOnload(u) /\ Quiet
    \/ \E u \in 1 .. MaxUploads : imgOnload(u) /\ Quiet
    \/ \E u \in 1 .. MaxUploads : imgOnerror(u) /\ Quiet
    \/ \E ctxOk \in BOOLEAN : handleSave(ctxOk) /\ Quiet
    \/ \E e \in 1 .. MaxExports : baseImgOnload(e) /\ Quiet
    \/ \E e \in 1 .. MaxExports : baseImgOnerror(e) /\ Quiet
    \/ \E e \in 1 .. MaxExports : hatImgOnload(e) /\ Quiet
    \/ \E e \in 1 .. MaxExports : hatImgOnerror(e) /\ Quiet
    \/ \E id \in 1 .. MaxTimers : statusTimeout(id) /\ Quiet
    \/ handleFlip /\ Quiet
    \/ handleReset /\ Quiet

SpecExport == Init /\ [][NextExport]_vars

---------------------------------------------------------------------------
(* Claims. *)

\* C1: after any sequence of scale-up and scale-down actions, interleaved
\* with the other buttons, 0.1 <= transform.scale <= 7.
ScaleClamped ==
    /\ MinScale <= transform.scale
    /\ transform.scale <= MaxScale

\* the scale sits at the upper clamp and a further scale-up would leave the range
ScaleAtUpperClamp ==
    /\ transform.scale = MaxScale
    /\ ScaleProduct(transform.scale, "up") > MaxScale

\* C2: once a drag that started at contact c0 with the overlay at p0 has seen a
\* single-contact move, and after it has ended, the position is ck - (c0 - p0)
\* for the last contact ck, whatever moves came before and whether the move
\* was handled once or twice.
DragTracksPointer ==
    gesture.phase \in {"moved", "ended"} =>
        transform.position =
            Pos(gesture.ck.x - (gesture.c0.x - gesture.p0.x),
                gesture.ck.y - (gesture.c0.y - gesture.p0.y))

\* a drag has ended that started off-centre and moved the overlay
DragEndedOffCentre ==
    /\ gesture.phase = "ended"
    /\ ~isDragging
    /\ gesture.p0 # Pos(0, 0)
    /\ gesture.ck # gesture.c0

\* C3: reset yields the default Transform and the overlay asset shown on mount.
ResetRestoresDefaults ==
    [][handleReset =>
          /\ transform' = IdentityTransform
          /\ currentHatImage' = InitialHat(variant)]_vars

\* C4: at most one dismissal timer is pending, it is the one scheduled with the
\* notification on display, and a notification on display has its timer
\* pending: an earlier notification's timer never outlives it.
SingleDismissalTimer ==
    timers = IF status = NoStatus THEN {} ELSE {statusTimeoutRef}

\* a notification is on display that was issued while another's timer was pending
NotificationSuperseded ==
    /\ status.supersedes
    /\ statusTimeoutRef \in timers

\* C5: handleSave with no base image issues the error notification and starts
\* no export: no canvas, no decode, and so no download.
SaveWithoutBaseRefused ==
    [][\A ctxOk \in BOOLEAN :
          (baseImage = NoImage /\ handleSave(ctxOk)) =>
              /\ status'.type = "error"
              /\ status'.message = "Please upload an image first"
              /\ exports' = exports]_vars

\* the refusal is on display
SaveRefusalShown ==
    /\ baseImage = NoImage
    /\ status.message = "Please upload an image first"

\* C6: the overlay asset an export draws is the asset the preview displays
\* when the export is invoked.
ExportDrawsShownHat ==
    [][\A ctxOk \in BOOLEAN, e \in DOMAIN exports :
          (handleSave(ctxOk) /\ exports'[e] # exports[e]) =>
              exports'[e].hat = currentHatImage]_vars

\* C7: a downloaded image has the native dimensions of the base image drawn
\* into it.
DownloadHasNativeSize ==
    [][\A e \in DOMAIN exports :
          hatImgOnload(e) =>
              /\ Download(exports[e]).width = NativeSize(exports[e].base).width
              /\ Download(exports[e]).height = NativeSize(exports[e].base).height]_vars

\* C8: no export stays at an await after the image it awaits failed to decode:
\* it has ended, with the save-error notification.
DecodeFailureEndsExport ==
    \A e \in DOMAIN exports : ~exports[e].decodeError

\* C9: selecting a file that is not an image issues an error notification,
\* starts no file read and changes no editor state.
NonImageRejected ==
    [][\A f \in Files :
          (~StartsWith(FileType(f), <<"image", "/">>) /\ handleBaseImageUpload(f)) =>
              /\ status'.type = "error"
              /\ UNCHANGED <<baseImage, originalImageSize, transform,
                             toggleVars, uploads, exports>>]_vars

\* the rejection is on display over an uploaded base image
RejectionShown ==
    /\ status.message = "Please select an image file"
    /\ baseImage # NoImage
    /\ originalImageSize.width > 0

RECURSIVE RotateN(_, _, _)
\* handleRotate's update applied n times: the first half of the turns, then the
\* rest from the rotation they give
RotateN(rotation, direction, n) ==
    IF n = 0 THEN rotation
    ELSE IF n = 1 THEN RotationAfter(rotation, direction)
    ELSE LET half == RotateN(rotation, direction, n \div 2)
         IN IF half \in Int THEN RotateN(half, direction, n - (n \div 2))
            ELSE half

\* C10: from every rotation, N rotate-right then N rotate-left actions give the
\* starting rotation back, and N actions move it by exactly 15 N degrees: it is
\* neither wrapped nor clamped.
RotateRoundTrip ==
    \A n \in 0 .. MaxTurns :
        LET turned == RotateN(transform.rotation, "right", n)
        IN /\ turned = transform.rotation + RotateStep * n
           /\ RotateN(turned, "left", n) = transform.rotation

\* the rotation has passed a full turn
RotationBeyondFullTurn == transform.rotation > 360

\* C11: when the last two buttons pressed were both Flip, the overlay asset and
\* the flip toggle are what they were before the first of the two, and the
\* accessory, the colour and the Transform are unchanged, in every variant.
FlipTwiceRestores ==
    (trail.op = "flip" /\ trail.run = 2) => EditorState = trail.before2

\* Flip was pressed twice in a row with the accessory on and the overlay flipped
FlippedTwiceWithTape ==
    /\ trail.op = "flip"
    /\ trail.run = 2
    /\ hasTape
    /\ isFlipped
    /\ trail.before.currentHatImage # currentHatImage

\* C12: when the last two buttons pressed were both Reset, the editor state is
\* the state the first of the two left.
ResetIdempotent ==
    (trail.op = "reset" /\ trail.run = 2) => EditorState = trail.before

\* Reset was pressed twice in a row, and the first press changed the editor
ResetTwiceAfterEdits ==
    /\ trail.op = "reset"
    /\ trail.run = 2
    /\ trail.before2.transform # IdentityTransform
    /\ trail.before2.currentHatImage # trail.before.currentHatImage

\* C13: a notification on display is cleared only when the timer scheduled
\* with it is due, a full StatusDelay after it was issued; issuing a
\* notification, the first or a newer one, starts a full StatusDelay; and a
\* notification on display is eventually cleared or superseded by a newer one.
AutoDismissed ==
    /\ [][(status # NoStatus /\ status' = NoStatus) =>
              /\ statusTimeoutRef \in timers
              /\ due[statusTimeoutRef] = 0]_vars
    /\ [][(status' # NoStatus /\ statusTimeoutRef' # statusTimeoutRef) =>
              /\ timers' = {statusTimeoutRef'}
              /\ due'[statusTimeoutRef'] = StatusDelay]_vars
    /\ \A id \in 1 .. MaxTimers :
          (status # NoStatus /\ statusTimeoutRef = id)
              ~> (status = NoStatus \/ statusTimeoutRef # id)

\* a notification is on display that superseded another part-way through its
\* interval, and has itself part of its interval left
SupersedingNoticeHalfWay ==
    /\ status.supersedes
    /\ statusTimeoutRef \in timers
    /\ due[statusTimeoutRef] > 0
    /\ due[statusTimeoutRef] < StatusDelay

\* C14: in each variant the selector gives one of the variant's assets for every toggle state,
\* and in every reachable state the asset on display is the selector applied
\* to the current colour, flip and accessory state.
HatMatchesToggles ==
    /\ \A c \in Colors, f \in BOOLEAN, t \in BOOLEAN :
          OverlaySelect(variant, c, f, t) \in HatAssets(variant)
    /\ currentHatImage = OverlaySelect(variant, hatColor, isFlipped, hasTape)

\* the blue, flipped, taped asset is on display
BlueFlippedTapedShown ==
    /\ hatColor = "blue"
    /\ isFlipped
    /\ hasTape
    /\ currentHatImage = "blue-left-tape"

\* C15: once every file read and image decode has completed, the base image
\* held is the image file selected last, and originalImageSize is that file's
\* native size, in whatever order the completions arrived.
NewUploadReplaces ==
    (selected # NoImage /\ \A u \in DOMAIN uploads : uploads[u].stage = "free") =>
        /\ baseImage = selected
        /\ Decodes(selected) => originalImageSize = NativeSize(selected)

\* C16: a drag-end (mouse-up, mouse-leave, touch-end, touch-cancel) leaves the
\* editor not dragging; while it is not dragging, which includes the time before
\* the first drag-start, no mouse or touch move changes transform.position; and
\* only a drag-start on the overlay makes it dragging again.
NoMoveOutsideDrag ==
    [][/\ (handleMouseUp \/ handleTouchEnd) => ~isDragging'
       /\ (/\ ~isDragging
           /\ \/ \E c \in Contacts : handleMouseMove(c)
              \/ \E t \in TouchLists, n \in {1, 2} : handleTouchMove(t, n))
             => transform'.position = transform.position
       /\ (~isDragging /\ isDragging') =>
             \/ \E c \in Contacts : handleMouseDown(c)
             \/ \E t \in TouchLists : handleTouchStart(t)]_vars

\* a drag has ended, and a move now would carry the overlay elsewhere if it
\* were still followed
DragOverMoveWouldShift ==
    /\ ~isDragging
    /\ gesture.phase = "ended"
    /\ \E c \in Contacts : DraggedPosition(c, dragStart) # transform.position

\* C17: a touch-start with more than one contact leaves isDragging and the
\* grab offset as they were, and a touch-move with more than one contact
\* leaves transform.position as it was, whether or not a drag is in progress.
MultiTouchIgnored ==
    [][/\ \A t \in TouchLists :
             (Len(t) > 1 /\ handleTouchStart(t)) => UNCHANGED <<isDragging, dragStart>>
       /\ \A t \in TouchLists, n \in {1, 2} :
             (Len(t) > 1 /\ handleTouchMove(t, n)) =>
                 transform'.position = transform.position]_vars

\* a drag is in progress, and the first of two contacts is where a
\* single contact would re-grab the overlay and carry it elsewhere
TwoContactsDuringDrag ==
    /\ isDragging
    /\ gesture.phase = "moved"
    /\ \E t \in TouchLists :
          /\ Len(t) > 1
          /\ GrabOffset(t[1], transform.position) # dragStart
          /\ DraggedPosition(t[1], dragStart) # transform.position

\* C18: the export composes translate, rotate, optional mirror and scale in
\* the order the preview's transform list does, so it draws every corner of
\* the overlay where the preview shows it, magnified by the fit factor about
\* the canvas centre; checked at every reachable rotation and scale, mirrored
\* and not, with the overlay at the centre and off it.
ExportTransformMatchesPreview ==
    \A flip \in BOOLEAN, p \in {Pos(0, 0), Pos(MaxCoord, -MaxCoord)},
       fit \in {1, 2}, sx \in {-1, 1}, sy \in {-1, 1} :
        LET tr == [transform EXCEPT !.flipX = flip, !.position = p]
            centre == Pos(2 * fit, fit)
            half == [w |-> 2, h |-> 1]
            drawn == CanvasCorner(tr, centre, fit, half, sx, sy)
            shown == PreviewCorner(tr, half, sx, sy)
        IN /\ drawn.den = shown.den
           /\ drawn.x - (centre.x * drawn.den) = fit * shown.x
           /\ drawn.y - (centre.y * drawn.den) = fit * shown.y

\* the overlay is turned by an angle that is no multiple of a quarter turn and
\* enlarged, so that neither the rotation nor the scale is the identity
OverlayTurnedAndEnlarged ==
    /\ transform.rotation % 90 = 2 * RotateStep
    /\ transform.scale > ScaleUnit
    /\ CanvasMatrix(transform, Pos(0, 0), 1).b # 0

\* C19: handleSave with a base image but no 2D drawing context issues the
\* "Error saving image" notification, starts no export (no decode, no
\* download) and leaves base image, size, Transform and overlay variant alone.
ContextFailureReported ==
    [][(baseImage # NoImage /\ handleSave(FALSE)) =>
          /\ status'.type = "error"
          /\ status'.message = "Error saving image"
          /\ UNCHANGED <<exports, uploads, baseImage, originalImageSize,
                         transform, toggleVars>>]_vars

\* the save error is on display over an uploaded base image, no export running
SaveErrorShown ==
    /\ baseImage # NoImage
    /\ status.message = "Error saving image"
    /\ \A e \in DOMAIN exports : exports[e].pc = "free"

\* C20: no step of an export, from the click to the download or the failure,
\* changes Transform, overlay variant, toggles, base image, size or drag state.
ExportKeepsEditorState ==
    [][(\/ \E ctxOk \in BOOLEAN : handleSave(ctxOk)
        \/ \E e \in DOMAIN exports :
              \/ baseImgOnload(e)
              \/ baseImgOnerror(e)
              \/ hatImgOnload(e)
              \/ hatImgOnerror(e))
          => UNCHANGED <<transform, toggleVars, baseImage, originalImageSize,
                         isDragging, dragStart>>]_vars

\* an export has downloaded while the size of the base image was still unset
\* and the overlay flipped
SavedBeforeSizeKnown ==
    /\ status.message = "Image saved successfully"
    /\ baseImage # NoImage
    /\ originalImageSize.width = 0
    /\ currentHatImage # InitialHat(variant)

\* C21: every variant mounts with position (0, 0), rotation 0, scale 1, flipX
\* false, not dragging, no base image, no notification, flip and accessory
\* off and the right-facing asset without accessory (the orange one in the
\* colour variant) on display; the variant mounted stays the one mounted.
MountsAtIdentity ==
    /\ /\ transform.position = Pos(0, 0)
       /\ transform.rotation = 0
       /\ transform.scale = ScaleUnit
       /\ transform.flipX = FALSE
       /\ isDragging = FALSE
       /\ baseImage = ""
       /\ originalImageSize = [width |-> 0, height |-> 0]
       /\ status.type = "none"
       /\ timers = {}
       /\ isFlipped = FALSE
       /\ hasTape = FALSE
       /\ hatColor = "orange"
       /\ currentHatImage = IF variant = "elizaColor" THEN "orange-right" ELSE "right"
       /\ \A u \in DOMAIN uploads : uploads[u].stage = "free"
       /\ \A e \in DOMAIN exports : exports[e].pc = "free"
    /\ [][variant' = variant]_vars

\* the colour variant as mounted: nothing pressed, nothing uploaded
ColourVariantJustMounted ==
    /\ variant = "elizaColor"
    /\ trail = NoTrail
    /\ transform = IdentityTransform
    /\ currentHatImage = "orange-right"
    /\ ~hasTape
    /\ hatColor = "orange"

\* C22: a step that issues an error notification changes nothing but the
\* notification; and whatever has failed or is still pending, the buttons and
\* the file input stay available, Save starts an export whenever a base image
\* is held, and every export whose images decode goes on to its download.
FailuresNotFatal ==
    /\ [][(statusTimeoutRef' # statusTimeoutRef /\ status'.type = "error") =>
              UNCHANGED <<transform, toggleVars, baseImage, originalImageSize,
                          isDragging, dragStart, uploads, exports>>]_vars
    /\ [](/\ ENABLED handleReset
          /\ ENABLED handleFlip
          /\ ENABLED handleRotate("right")
          /\ ENABLED handleScale("up")
          /\ ENABLED handleBaseImageUpload("notes.txt")
          /\ FreeUploadSlots # {} => ENABLED handleBaseImageUpload("wide.png")
          /\ ENABLED handleSave(FALSE)
          /\ (baseImage # NoImage /\ FreeExportSlots # {}) => ENABLED handleSave(TRUE)
          /\ \A e \in DOMAIN exports :
                /\ (/\ exports[e].pc = "awaitBase"
                    /\ ~exports[e].decodeError
                    /\ Decodes(exports[e].base)) => ENABLED baseImgOnload(e)
                /\ (exports[e].pc = "awaitHat" /\ ~exports[e].decodeError)
                      => ENABLED hatImgOnload(e))

\* an export has downloaded while another, whose base image failed to decode,
\* is still pending
SavedWhileAnotherHangs ==
    /\ status.message = "Image saved successfully"
    /\ baseImage = "wide.png"
    /\ \E e \in DOMAIN exports :
          /\ exports[e].decodeError
          /\ exports[e].base = "broken.png"

\* the export steps a log records before the given step
StepsBefore(log, step) ==
    {log[i] : i \in {i \in DOMAIN log : \A j \in DOMAIN log : log[j] = step => i < j}}

StepsOf(log) == {log[i] : i \in DOMAIN log}

Occurrences(log, step) == Cardinality({i \in DOMAIN log : log[i] = step})

ExportLogInOrder(log) ==
    /\ \A step \in {"startBaseDecode", "baseDecoded", "drawBase", "startHatDecode",
                     "hatDecoded", "drawHat", "download"} : Occurrences(log, step) = 1
    /\ "baseDecoded" \in StepsBefore(log, "startHatDecode")
    /\ {"baseDecoded", "hatDecoded"} \subseteq StepsBefore(log, "drawHat")
    /\ "baseDecoded" \in StepsBefore(log, "drawBase")
    /\ {"drawBase", "drawHat"} \subseteq StepsBefore(log, "download")

\* C23: in every export the base decode has completed before the overlay
\* decode is started, both decodes have completed before the overlay is drawn,
\* and the download comes after base and overlay were drawn; an export that is
\* still waiting for a decode has downloaded nothing.
ExportStepsInOrder ==
    /\ [](\A e \in DOMAIN exports :
            /\ "download" \notin StepsOf(exports[e].done)
            /\ exports[e].pc = "awaitBase" =>
                  StepsOf(exports[e].done) \cap {"startHatDecode", "drawBase", "drawHat"} = {}
            /\ exports[e].pc = "awaitHat" =>
                  /\ "drawHat" \notin StepsOf(exports[e].done)
                  /\ "baseDecoded" \in StepsBefore(exports[e].done, "startHatDecode"))
    /\ [][\A e \in DOMAIN exports :
            (exports[e].pc = "awaitHat" /\ exports'[e].pc = "free") =>
               ExportLogInOrder(exports[e].done \o StepsAfterHatDecode)]_vars

\* an export of a turned overlay has gone through to its download
TurnedOverlayDownloaded ==
    /\ status.message = "Image saved successfully"
    /\ transform.rotation # 0
    /\ \A e \in DOMAIN exports : exports[e].pc = "free"

\* the transform changes in no field other than the given ones
OnlyFieldsChange(fields) ==
    \A g \in DOMAIN transform \ fields : transform'[g] = transform[g]

ScaleExactlyClamped ==
    [][\A d \in {"up", "down"} :
         handleScale(d) =>
           LET product == ScaleProduct(transform.scale, d)
           IN /\ transform'.scale = Min(MaxScale, Max(MinScale, product))
              /\ product >= MaxScale => transform'.scale = MaxScale
              /\ product <= MinScale => transform'.scale = MinScale
              /\ (MinScale < product /\ product < MaxScale) =>
                    transform'.scale = product
              /\ (transform.scale = MaxScale /\ d = "up") =>
                    transform'.scale = MaxScale
              /\ (transform.scale = MinScale /\ d = "down") =>
                    transform'.scale = MinScale]_vars

\* the scale sits at the lower clamp and a further scale-down would leave the range
ScaleAtLowerClamp ==
    /\ transform.scale = MinScale
    /\ ScaleProduct(transform.scale, "down") < MinScale

\* fractions with positive denominators, compared by cross-multiplication
FracLeq(p, q) == p.num * q.den <= q.num * p.den

FracEq(p, q) == p.num * q.den = q.num * p.den

Whole(n) == [num |-> n, den |-> 1]

Sides == 1 .. MaxSide

\* C26: once an export has decoded its base image, the displayed size it
\* computes for any positive container and native size fits the container
\* (width and height no larger, one of them equal) and keeps the native aspect
\* ratio, so scaleX = scaleY.
ContainFitKeepsAspect ==
    (\E e \in DOMAIN exports : exports[e].pc = "awaitHat") =>
      \A cw \in Sides, ch \in Sides, w \in Sides, h \in Sides :
        LET displayed == ContainFit(cw, ch, w, h)
            factors == FitFactors(displayed, w, h)
        IN /\ displayed.width.num > 0 /\ displayed.width.den > 0
           /\ displayed.height.num > 0 /\ displayed.height.den > 0
           /\ FracLeq(displayed.width, Whole(cw))
           /\ FracLeq(displayed.height, Whole(ch))
           /\ FracEq(displayed.width, Whole(cw)) \/ FracEq(displayed.height, Whole(ch))
           /\ displayed.width.num * displayed.height.den * h
                = w * displayed.height.num * displayed.width.den
           /\ FracEq(factors.x, factors.y)

\* an export of a landscape image has computed its fit; in a square container
\* the image is letterboxed, its displayed height short of the container's
WideImageLetterboxed ==
    \E e \in DOMAIN exports :
       /\ exports[e].pc = "awaitHat"
       /\ exports[e].size = NativeSize("wide.png")
       /\ LET displayed == ContainFit(MaxSide, MaxSide, exports[e].size.width,
                                      exports[e].size.height)
          IN /\ FracEq(displayed.width, Whole(MaxSide))
             /\ ~FracEq(displayed.height, Whole(MaxSide))

\* the layout width of the overlay <img>: w-[100px] or w-[400px]
DisplayWidth(v) == IF v \in {"elizaTape", "ai16z"} THEN 100 ELSE 400

\* width : height of the overlay assets considered (h-auto keeps the ratio)
HatAspects == {1, 2}

\* getBoundingClientRect().width of a w by h box shown under the overlay's
\* CSS transform: the axis-aligned box around the turned and scaled element
BoundingWidth(w, h, shown) ==
    [num |-> shown.scale * ((w * Abs(Cos(shown.rotation)))
                              + (h * Abs(Sin(shown.rotation)))),
     den |-> ScaleUnit * TrigUnit]

\* overlayWidth / scaleX: 100 or 400, or in the window copy the width of the
\* overlay's bounding rect as the page shows it when the export draws
OverlayFootprint(v, shown, aspect) ==
    IF v = "sweetyWindow"
    THEN BoundingWidth(DisplayWidth(v), DisplayWidth(v) \div aspect, shown)
    ELSE Whole(DisplayWidth(v))

\* the step in which export e draws the overlay and downloads
Downloads(e) == exports[e].pc = "awaitHat" /\ exports'[e].pc = "free"

\* C27: in every variant the width an export draws the overlay with, before
\* the canvas scale step, is the fixed display width times scaleX, whatever
\* the scale and rotation.
OverlayWidthFixed ==
    [][\A e \in DOMAIN exports, aspect \in HatAspects :
          Downloads(e) =>
             FracEq(OverlayFootprint(variant, transform, aspect),
                    Whole(DisplayWidth(variant)))]_vars

\* C28: an export draws with the Transform that was current when Save was
\* pressed: the invocation keeps that value while it awaits the decodes, and
\* position, rotation, scale, mirror and the overlay's footprint at the
\* download are those of that one value, whatever was dragged, turned or
\* resized in between.
ExportUsesOneSnapshot ==
    [][\A e \in DOMAIN exports :
          /\ (exports[e].pc = "free" /\ exports'[e].pc = "awaitBase") =>
                exports'[e].transform = transform
          /\ (exports[e].pc # "free" /\ exports'[e].pc # "free") =>
                exports'[e].transform = exports[e].transform
          /\ Downloads(e) =>
                /\ Download(exports[e]).transform = exports[e].transform
                /\ \A aspect \in HatAspects :
                      OverlayFootprint(variant, transform, aspect)
                        = OverlayFootprint(variant, exports[e].transform, aspect)]_vars

\* C29: an export invocation downloads at most once, under the file name of
\* its variant; the success notification comes with the download, after it,
\* and never without one; the save-error notification is issued only by an
\* invocation that downloads nothing.
OneDownloadPerExport ==
    [][/\ \A e \in DOMAIN exports :
            Downloads(e) =>
               LET log == exports[e].done \o StepsAfterHatDecode
               IN /\ Occurrences(log, "download") = 1
                  /\ Occurrences(log, "notifySaved") = 1
                  /\ "download" \in StepsBefore(log, "notifySaved")
                  /\ Download(exports[e]).filename =
                       (CASE variant \in {"elizaTape", "ai16z"} -> "you-are-a-partner-now.png"
                          [] variant \in {"sweety", "sweetyWindow"} -> "sweetychat-hat.png"
                          [] variant = "elizaColor" -> "eliza-hat.png")
                  /\ status'.message = "Image saved successfully"
                  /\ exports'[e] = FreeExport
       /\ (statusTimeoutRef' # statusTimeoutRef
             /\ status'.message = "Image saved successfully") =>
            Cardinality({e \in DOMAIN exports : Downloads(e)}) = 1
       /\ (statusTimeoutRef' # statusTimeoutRef
             /\ status'.message = "Error saving image") =>
            exports' = exports]_vars

\* one export has downloaded and announced it while another invocation, still
\* awaiting its overlay, has downloaded nothing yet
SavedWhileAnotherAwaits ==
    /\ status.message = "Image saved successfully"
    /\ \E e \in DOMAIN exports :
          /\ exports[e].pc = "awaitHat"
          /\ ~exports[e].decodeError
          /\ "download" \notin StepsOf(exports[e].done)

\* C30: transform.flipX is false in every reachable state of every variant,
\* and in the Transform every export draws with, so the export never takes
\* its ctx.scale(-1, 1) branch; a flip shows only in the overlay asset.
NeverMirrored ==
    /\ ~transform.flipX
    /\ \A e \in DOMAIN exports : ~exports[e].transform.flipX
    /\ \A e \in DOMAIN exports :
          exports[e].pc # "free" =>
            CanvasMatrix(exports[e].transform, Pos(0, 0), 1).a >= 0

\* the overlay is flipped, shown by another asset than the mounted one, and an
\* export started in that state is about to draw it
FlippedOverlayBeingExported ==
    /\ currentHatImage # InitialHat(variant)
    /\ \E e \in DOMAIN exports :
          /\ exports[e].pc = "awaitHat"
          /\ exports[e].hat = currentHatImage
          /\ ~exports[e].transform.flipX

\* C31: every step of an upload (the file chosen, its read completing, its
\* decode completing) leaves the Transform, the toggles, the overlay asset
\* and the drag state as they were; the file read changes the base image
\* only, the decode the recorded size and the notification only.
UploadKeepsOverlay ==
    [][uploads' # uploads =>
         /\ UNCHANGED <<transform, isDragging, dragStart, isFlipped, hasTape,
                        hatColor, currentHatImage>>
         /\ baseImage' # baseImage =>
               UNCHANGED <<originalImageSize, status, timers>>
         /\ originalImageSize' # originalImageSize => baseImage' = baseImage]_vars

\* an image finished loading while the overlay, moved, turned and resized, was
\* being dragged
LoadedUnderDraggedOverlay ==
    /\ status.message = "Image loaded successfully"
    /\ originalImageSize = NativeSize("wide.png")
    /\ isDragging
    /\ transform.position # Pos(0, 0)
    /\ transform.rotation # 0
    /\ transform.scale # ScaleUnit

\* C32: Reset leaves the base image, its recorded size, the notification with
\* its timer and the drag state (isDragging, dragStart) as they were; a drag
\* in progress goes on, and every move of a drag, the first after a reset
\* included, puts the overlay at the contact point minus dragStart.
ResetKeepsDrag ==
    [][/\ handleReset =>
            UNCHANGED <<baseImage, originalImageSize, status, statusTimeoutRef,
                        timers, isDragging, dragStart>>
       /\ \A c \in Contacts :
            (isDragging /\ handleMouseMove(c)) =>
               transform'.position = Pos(c.x - dragStart.x, c.y - dragStart.y)
       /\ \A c \in Contacts, n \in {1, 2} :
            (isDragging /\ handleTouchMove(<<c>>, n)) =>
               transform'.position = Pos(c.x - dragStart.x, c.y - dragStart.y)]_vars

\* Reset has just been pressed in the middle of a drag, over a loaded image
\* whose notification is on display: the overlay is back at the origin, still
\* held, and a move to the last contact point would take it away again
ResetInMidDrag ==
    /\ transform = IdentityTransform
    /\ isDragging
    /\ gesture.phase = "started"
    /\ gesture.ck # gesture.c0
    /\ DraggedPosition(gesture.ck, dragStart) # Pos(0, 0)
    /\ baseImage = "wide.png"
    /\ status.message = "Image loaded successfully"

\* C33: once the editor is unmounted no dismissal timer is pending and the
\* notification state changes no more, whatever was pending at the unmount.
QuietAfterUnmount ==
    /\ [](~mounted => timers = {})
    /\ [][~mounted => status' = status]_vars

===========================================================================
